---------------------------- MODULE Spec2Model ----------------------------
(***************************************************************************)
(* A model of virtualenv's two resolution engines:                         *)
(*   - runtime discovery (discovery/builtin.py, discovery/py_info.py);     *)
(*   - bootstrap-wheel acquisition and the periodic update scheduler       *)
(*     (seed/wheels/acquire.py, periodic_update.py, util.py).              *)
(* Each engine has its own specification over the shared variables; the    *)
(* variables of the other engines stay at their initial value.             *)
(***************************************************************************)
EXTENDS Integers, Sequences, FiniteSets, TLC

VARIABLES
    host,       \* what sys/platform report in this process (read by PythonInfo.__init__)
    fs,         \* directory id -> listing (iterdir order) or "unlistable"
    cache,      \* PythonInfo._cache_exe_discovery: exe path -> absent | None | info
    giLast,     \* the last get_interpreter call: its inputs and its outcome
    feLast,     \* the last sequential from_exe call: its inputs and its outcome
    feHist,     \* per path: history of the sequential from_exe calls
    th,         \* per thread: the from_exe call it is executing
    probes,     \* per path: number of probes (cls()) run by the threads
    wheelDirs,  \* search directory id -> listing of file names or "unlistable"
    gwLast,     \* the last get_wheel call: its inputs and its outcome
    dl,         \* the get_wheel call in progress: its position and its pip process
    updLog,     \* the embed update log of the distribution (on disk)
    now,        \* the wall clock, in minutes
    pu,         \* per caller process: where it is inside periodic_update
    child,      \* per caller process: the refresh process it spawned
    launches,   \* history: the refreshes launched, in order
    versions,   \* the version records of the update log (a Python list)
    call        \* the last call of a pure function: its inputs and its result

vars == <<host, fs, cache, giLast, feLast, feHist, th, probes,
          wheelDirs, gwLast, dl, updLog, now, pu, child, launches, versions, call>>

discoveryVars == <<host, fs, cache, giLast, feLast, feHist, th, probes>>
wheelVars == <<wheelDirs, gwLast, dl>>
updateVars == <<updLog, now, pu, child, launches>>
recordVars == <<versions, call>>

-----------------------------------------------------------------------------
(* Python values *)

\* None where a string is expected (spec.implementation, spec.path)
NoneStr == "None"

\* None where an integer is expected (spec.major, spec.architecture, ...)
NoneInt == 0 - 1

\* a function's outcome: a returned value or a raised exception
Return(v) == [tag |-> "return", value |-> v]

Raise(exc) == [tag |-> "raise", exc |-> exc]

\* the value None as a returned object / a cached failure marker
NoneObj == [kind |-> "None"]

\* a key that is not in a dict
Absent == [kind |-> "absent"]

-----------------------------------------------------------------------------
(* The host: the facts PythonInfo.__init__ reads from sys and platform *)

Hosts ==
    { [implementation |-> "CPython", version_info |-> <<3, 11, 0>>, architecture |-> 64],
      [implementation |-> "CPython", version_info |-> <<3, 10, 0>>, architecture |-> 32] }

\* PythonInfo(): the fields satisfies() and the callers read
PythonInfo(h) ==
    [kind |-> "info",
     implementation |-> h.implementation,
     version_info |-> h.version_info,
     architecture |-> h.architecture,
     executable |-> <<"sys", "executable">>]

\* the ways a probe (cls() in from_exe) can end: a new object, or an exception
\* raised by PythonInfo.__init__ (an OSError or any other Exception)
ProbeOutcomes == {"ok", "OSError", "Exception"}

-----------------------------------------------------------------------------
(* discovery/py_info.py *)

\* PythonInfo.satisfies(spec, impl_must_match)
VersionOk_RequiresPinned(info, spec, i) ==
    info.version_info[i] = <<spec.major, spec.minor, spec.micro>>[i]

VersionOk(info, spec, i) ==
    LET our == info.version_info[i]
        req == <<spec.major, spec.minor, spec.micro>>[i]
    IN ~(req # NoneInt /\ our # NoneInt /\ our # req)

satisfies_OrderedVersion(info, spec, impl_must_match) ==
    /\ spec.implementation # NoneStr /\ impl_must_match
          => spec.implementation = info.implementation
    /\ spec.architecture # NoneInt => spec.architecture = info.architecture
    /\ <<spec.major, spec.minor>> # <<NoneInt, NoneInt>>
          => /\ spec.major \in {NoneInt, info.version_info[1]}
             /\ spec.minor <= info.version_info[2]
    /\ spec.micro \in {NoneInt, info.version_info[3]}

satisfies(info, spec, impl_must_match) ==
    IF spec.implementation # NoneStr /\ impl_must_match
          /\ spec.implementation # info.implementation
    THEN FALSE
    ELSE IF spec.architecture # NoneInt /\ spec.architecture # info.architecture
    THEN FALSE
    ELSE \A i \in 1..3 : VersionOk(info, spec, i)

\* from_exe, lines 170-174: the answer from the cached entry (a cached None is
\* returned, or raised as RuntimeError when raise_on_error)
CacheAnswer_NeverRaises(c, exe, raise_on_error) == Return(c[exe])

CacheAnswer(c, exe, raise_on_error) ==
    IF c[exe] # NoneObj \/ ~raise_on_error
    THEN Return(c[exe])
    ELSE Raise("RuntimeError")

\* from_exe, line 169: is the call answered from the cache?
CacheHit(c, exe, ignore_cache) == ~ignore_cache /\ c[exe] # Absent

\* from_exe, lines 180 and 183: the probe ended with `outcome`; what is cached
Stored_DropsFailure(h, exe, outcome, old) ==
    IF outcome = "ok"
    THEN [PythonInfo(h) EXCEPT !.executable = exe]
    ELSE old

Stored(h, exe, outcome, old) ==
    IF outcome = "ok"
    THEN [PythonInfo(h) EXCEPT !.executable = exe]
    ELSE NoneObj

\* from_exe, lines 181 and 184-187: the probe ended with `outcome`; what the
\* call returns or raises
ProbeAnswer(h, exe, outcome, raise_on_error) ==
    IF outcome = "ok"
    THEN Return([PythonInfo(h) EXCEPT !.executable = exe])
    ELSE IF raise_on_error THEN Raise(outcome) ELSE Return(NoneObj)

\* PythonInfo.from_exe run without interruption: the new cache, the outcome,
\* and whether cls() was run
from_exe(c, h, exe, raise_on_error, ignore_cache, outcome) ==
    IF CacheHit(c, exe, ignore_cache)
    THEN [cache |-> c, out |-> CacheAnswer(c, exe, raise_on_error), probed |-> FALSE]
    ELSE [cache |-> [c EXCEPT ![exe] = Stored(h, exe, outcome, c[exe])],
          out |-> ProbeAnswer(h, exe, outcome, raise_on_error),
          probed |-> TRUE]

-----------------------------------------------------------------------------
(* discovery/py_spec.py (PythonSpec) *)

\* no explicit path (spec.path is None)
NoPath == <<>>

\* the file names of the model and the stem each one spells: family + version
NameStem(name) ==
    CASE name = "python3" -> [family |-> "python", version |-> <<3>>]
      [] name = "python3.11" -> [family |-> "python", version |-> <<3, 11>>]

FileNames == {"python3", "python3.11"}

\* the version components a spec pins, in order, up to the first absent one
PinnedVersion(spec) ==
    IF spec.major = NoneInt THEN <<>>
    ELSE IF spec.minor = NoneInt THEN <<spec.major>>
    ELSE IF spec.micro = NoneInt THEN <<spec.major, spec.minor>>
    ELSE <<spec.major, spec.minor, spec.micro>>

\* spec.generate_re(windows=False).match(name): the name equals the expected stem
PatternMatch(spec, name) ==
    /\ NameStem(name).family
          = (IF spec.implementation = NoneStr THEN "python" ELSE spec.implementation)
    /\ NameStem(name).version = PinnedVersion(spec)

PythonSpec(impl, major, minor, arch, path) ==
    [implementation |-> impl, major |-> major, minor |-> minor, micro |-> NoneInt,
     architecture |-> arch, path |-> path]

\* the specifications get_interpreter is called with
Specs ==
    { PythonSpec(NoneStr, 3, NoneInt, NoneInt, NoPath),
      PythonSpec(NoneStr, 3, 11, 64, NoPath),
      PythonSpec(NoneStr, 3, 11, NoneInt, <<"d1", "python3">>) }

-----------------------------------------------------------------------------
(* The file system seen by the PATH scan *)

DirIds == {"d1", "d2"}

ExePaths == DirIds \X FileNames

\* what one directory entry is: an executable file ("exe"), a file without the
\* executable bit ("noexec"), a directory ("dir"), or an entry whose stat()
\* raises OSError ("staterr", e.g. a dangling link)
Entry(name, kind) == [name |-> name, kind |-> kind]

\* a directory: iterdir() raises OSError, or yields the entries in this order
Listing(entries) == [ok |-> TRUE, entries |-> entries]

Unlistable == [ok |-> FALSE, entries |-> <<>>]

\* the directories of the model
Listings ==
    { Unlistable,
      Listing(<<>>),
      Listing(<<Entry("python3", "exe")>>),
      Listing(<<Entry("python3", "dir")>>),
      Listing(<<Entry("python3", "noexec")>>),
      Listing(<<Entry("python3", "staterr")>>),
      Listing(<<Entry("python3.11", "exe")>>),
      Listing(<<Entry("python3.11", "exe"), Entry("python3", "exe")>>),
      Listing(<<Entry("python3", "exe"), Entry("python3.11", "exe")>>) }

\* the PATH lists of the model: both directories, in either order
PathLists == { <<"d1", "d2">>, <<"d2", "d1">> }

\* Path.exists()
exists(f, path) ==
    /\ f[path[1]].ok
    /\ \E i \in 1..Len(f[path[1]].entries) :
          /\ f[path[1]].entries[i].name = path[2]
          /\ f[path[1]].entries[i].kind # "staterr"

-----------------------------------------------------------------------------
(* discovery/builtin.py *)

\* path_exe_finder(spec)(path): the names the generator yields, in iterdir
\* order: entries that are no directory, have the executable bit, whose stat()
\* does not raise, and whose name matches the pattern of the spec
RECURSIVE finder(_, _)
finder(spec, entries) ==
    IF entries = <<>> THEN <<>>
    ELSE LET e == Head(entries)
             rest == finder(spec, Tail(entries))
         IN IF e.kind # "exe" THEN rest
            ELSE IF PatternMatch(spec, e.name) THEN <<e.name>> \o rest
            ELSE rest

\* the inner loop of get_interpreter (lines 82-85) over the candidates of one
\* directory, from the k-th on. out.tag: "return" (line 85), "raise" (an
\* exception that is no OSError leaves get_interpreter), "next" (the candidates
\* are exhausted, or an OSError was caught at line 86)
RECURSIVE ScanDir(_, _, _, _, _, _, _)
ScanDir(c, h, spec, dir, cands, k, outcome) ==
    IF k > Len(cands) THEN [cache |-> c, out |-> [tag |-> "next"]]
    ELSE LET exe == <<dir, cands[k]>>
             r == from_exe(c, h, exe, TRUE, FALSE, outcome[exe])
         IN IF r.out.tag = "raise"
            THEN [cache |-> r.cache,
                  out |-> IF r.out.exc = "OSError" THEN [tag |-> "next"] ELSE r.out]
            ELSE IF r.out.value # NoneObj /\ satisfies(r.out.value, spec, TRUE)
            THEN [cache |-> r.cache, out |-> r.out]
            ELSE ScanDir(r.cache, h, spec, dir, cands, k + 1, outcome)

\* the outer loop of get_interpreter (lines 80-88) over PATH, from the i-th
\* directory on; a directory whose iterdir() raises OSError is skipped
RECURSIVE ScanPath(_, _, _, _, _, _, _)
ScanPath(c, h, f, spec, paths, i, outcome) ==
    IF i > Len(paths) THEN [cache |-> c, out |-> Return(NoneObj)]
    ELSE IF ~f[paths[i]].ok THEN ScanPath(c, h, f, spec, paths, i + 1, outcome)
    ELSE LET r == ScanDir(c, h, spec, paths[i],
                          finder(spec, f[paths[i]].entries), 1, outcome)
         IN IF r.out.tag = "next"
            THEN ScanPath(r.cache, h, f, spec, paths, i + 1, outcome)
            ELSE r

\* get_interpreter(app_data, spec, env): the new cache and the outcome
get_interpreter_ChecksExplicit(c, h, f, spec, paths, outcome) ==
    IF spec.path # NoPath /\ exists(f, spec.path)
    THEN LET r == from_exe(c, h, spec.path, TRUE, FALSE, outcome[spec.path])
         IN [cache |-> r.cache,
             out |-> IF r.out.tag = "return" /\ ~satisfies(r.out.value, spec, TRUE)
                     THEN Return(NoneObj) ELSE r.out]
    ELSE IF spec.path # NoPath THEN [cache |-> c, out |-> Return(NoneObj)]
    ELSE ScanPath(c, h, f, spec, paths, 1, outcome)

get_interpreter(c, h, f, spec, paths, outcome) ==
    IF spec.path # NoPath
    THEN IF exists(f, spec.path)
         THEN LET r == from_exe(c, h, spec.path, TRUE, FALSE, outcome[spec.path])
              IN [cache |-> r.cache, out |-> r.out]
         ELSE [cache |-> c, out |-> Return(NoneObj)]
    ELSE ScanPath(c, h, f, spec, paths, 1, outcome)

-----------------------------------------------------------------------------
(* Initial values of the three groups of variables *)

\* get_interpreter calls per run of the model
MaxGiCalls == 2

NoCall == [n |-> 0]

EmptyCache == [p \in ExePaths |-> Absent]

DiscoveryIdle ==
    /\ cache = EmptyCache
    /\ giLast = NoCall
    /\ feLast = NoCall
    /\ feHist = <<>>
    /\ th = <<>>
    /\ probes = <<>>

DiscoveryHostIdle ==
    /\ host = CHOOSE h \in Hosts : h.architecture = 64
    /\ fs = [d \in DirIds |-> [ok |-> TRUE, entries |-> <<>>]]
    /\ DiscoveryIdle

\* no get_wheel call is in progress
NoDownload == [pc |-> "idle", pip |-> "none"]

WheelIdle ==
    /\ wheelDirs = <<>>
    /\ gwLast = NoCall
    /\ dl = NoDownload

UpdateIdle ==
    /\ updLog = [kind |-> "absent"]
    /\ now = 0
    /\ pu = <<>>
    /\ child = <<>>
    /\ launches = [seq |-> <<>>, firstDone |-> NoneInt]

\* no pure function was called yet
NoFn == [fn |-> "none"]

RecordIdle ==
    /\ versions = <<>>
    /\ call = NoFn

-----------------------------------------------------------------------------
(* Specification SpecDiscover: get_interpreter calls, one after the other, in *)
(* one process (one host, one file system, one probe cache)                   *)

\* what a probe of `exe` would give get_interpreter: the cached entry if there
\* is one, else the outcome of cls()
ProbedFacts(c, h, exe, outcome) ==
    IF c[exe] # Absent THEN c[exe]
    ELSE IF outcome[exe] = "ok" THEN [PythonInfo(h) EXCEPT !.executable = exe]
    ELSE NoneObj

\* the positions <<i, j>> of PATH: directory i of the list, entry j of its listing
Positions(f, paths) ==
    { q \in (1..Len(paths)) \X (1..Cardinality(FileNames)) :
        f[paths[q[1]]].ok /\ q[2] <= Len(f[paths[q[1]]].entries) }

Before(a, b) == a[1] < b[1] \/ (a[1] = b[1] /\ a[2] < b[2])

\* position q holds a non-directory executable file whose name matches the
\* pattern of the spec and whose facts satisfy the spec
Qualifies(c, h, f, spec, paths, outcome, q) ==
    LET e == f[paths[q[1]]].entries[q[2]]
        facts == ProbedFacts(c, h, <<paths[q[1]], e.name>>, outcome)
    IN /\ e.kind = "exe"
       /\ PatternMatch(spec, e.name)
       /\ facts # NoneObj
       /\ satisfies(facts, spec, TRUE)

\* position q holds a matching candidate whose probe fails
Broken(c, h, f, spec, paths, outcome, q) ==
    LET e == f[paths[q[1]]].entries[q[2]]
    IN /\ e.kind = "exe"
       /\ PatternMatch(spec, e.name)
       /\ ProbedFacts(c, h, <<paths[q[1]], e.name>>, outcome) = NoneObj

\* the facts of the first qualifying position of PATH, None if there is none
FirstQualifying(c, h, f, spec, paths, outcome) ==
    LET good == { q \in Positions(f, paths) :
                    Qualifies(c, h, f, spec, paths, outcome, q) }
    IN IF good = {} THEN NoneObj
       ELSE LET q == CHOOSE x \in good : \A y \in good : x = y \/ Before(x, y)
            IN ProbedFacts(c, h, <<paths[q[1]], f[paths[q[1]]].entries[q[2]].name>>,
                           outcome)

\* a broken candidate comes before the first qualifying one
BrokenBeforeFirst(c, h, f, spec, paths, outcome) ==
    LET good == { q \in Positions(f, paths) :
                    Qualifies(c, h, f, spec, paths, outcome, q) }
    IN \E b \in Positions(f, paths) :
         /\ Broken(c, h, f, spec, paths, outcome, b)
         /\ \E g \in good : Before(b, g)

\* the paths get_interpreter can probe for a spec: its explicit path, or the
\* existing files whose name matches its pattern
ProbeTargets(f, spec) ==
    IF spec.path # NoPath THEN {spec.path}
    ELSE { p \in ExePaths : exists(f, p) /\ PatternMatch(spec, p[2]) }

InitDiscover ==
    /\ host \in Hosts
    /\ fs \in [DirIds -> Listings]
    /\ DiscoveryIdle
    /\ WheelIdle
    /\ UpdateIdle
    /\ RecordIdle

GetInterpreter ==
    /\ giLast.n < MaxGiCalls
    /\ \E spec \in Specs, paths \in PathLists :
       \E outcome \in [ProbeTargets(fs, spec) -> ProbeOutcomes] :
         LET r == get_interpreter(cache, host, fs, spec, paths, outcome)
         IN /\ cache' = r.cache
            /\ giLast' = [n |-> giLast.n + 1,
                          spec |-> spec,
                          paths |-> paths,
                          out |-> r.out,
                          first |-> IF spec.path # NoPath THEN NoneObj
                                    ELSE FirstQualifying(cache, host, fs, spec,
                                                         paths, outcome),
                          broken |-> /\ spec.path = NoPath
                                     /\ BrokenBeforeFirst(cache, host, fs, spec,
                                                          paths, outcome)]
    /\ UNCHANGED <<host, fs, feLast, feHist, th, probes>>
    /\ UNCHANGED <<wheelVars, updateVars, recordVars>>

NextDiscover == GetInterpreter

SpecDiscover == InitDiscover /\ [][NextDiscover]_vars

\* C1: for a spec without explicit path, get_interpreter returns the facts of
\* the first candidate, in PATH order, that is a non-directory executable file
\* whose name matches the pattern and whose facts satisfy the spec, and None
\* only when there is no such candidate.
C1_FirstQualifyingReturned ==
    (giLast.n > 0 /\ giLast.spec.path = NoPath)
        => giLast.out = Return(giLast.first)

\* C2: during a PATH scan a failed probe is swallowed: get_interpreter does not
\* raise, and a satisfying candidate that comes after a broken one is returned.
C2_FailedProbeSwallowed ==
    (giLast.n > 0 /\ giLast.spec.path = NoPath)
        => /\ giLast.out.tag # "raise"
           /\ giLast.broken => giLast.out.value = giLast.first

\* C13: with an explicit path get_interpreter never scans PATH (no other path
\* is probed); if the path exists it probes that path and returns its facts,
\* whether or not they satisfy the other fields of the spec (a failed probe is
\* raised to the caller); if the path does not exist it returns None and
\* probes nothing.
C13_ExplicitPathAuthoritative ==
    [][ giLast'.spec.path # NoPath =>
          LET p == giLast'.spec.path
          IN /\ \A q \in ExePaths \ {p} : cache'[q] = cache[q]
             /\ IF exists(fs, p)
                THEN \/ /\ giLast'.out.tag = "return"
                        /\ giLast'.out.value = cache'[p]
                        /\ cache'[p].kind = "info"
                        /\ cache'[p].executable = p
                     \/ /\ giLast'.out.tag = "raise"
                        /\ cache'[p] = NoneObj
                ELSE /\ giLast'.out = Return(NoneObj)
                     /\ cache'[p] = cache[p] ]_vars

\* C13 witness: the explicit path exists and its facts, which do not satisfy
\* the version the spec asks for, were returned
C13_Witness ==
    /\ giLast.n > 0
    /\ giLast.spec.path # NoPath
    /\ exists(fs, giLast.spec.path)
    /\ giLast.out.tag = "return"
    /\ giLast.out.value.kind = "info"
    /\ giLast.out.value.executable = giLast.spec.path
    /\ ~satisfies(giLast.out.value, giLast.spec, TRUE)

-----------------------------------------------------------------------------
(* Specification SpecProbe: PythonInfo.from_exe calls, one after the other *)

\* from_exe calls per run of the model
MaxFeCalls == 3

\* the paths from_exe is called with
ProbePaths == { <<"d1", "python3">>, <<"d2", "python3">> }

\* what a finished call says about the probe result: the facts it returned,
\* or None for a failure (None returned, or an exception raised)
ResultOf(out) == IF out.tag = "return" THEN out.value ELSE NoneObj

InitProbe ==
    /\ host \in Hosts
    /\ fs = [d \in DirIds |-> Listing(<<Entry("python3", "exe")>>)]
    /\ cache = EmptyCache
    /\ giLast = NoCall
    /\ feLast = NoCall
    /\ feHist = [p \in ProbePaths |-> [prev |-> Absent, failed |-> FALSE]]
    /\ th = <<>>
    /\ probes = <<>>
    /\ WheelIdle
    /\ UpdateIdle
    /\ RecordIdle

FromExeCall ==
    /\ feLast.n < MaxFeCalls
    /\ \E exe \in ProbePaths, raise_on_error \in BOOLEAN, ignore_cache \in BOOLEAN,
          outcome \in ProbeOutcomes :
         LET r == from_exe(cache, host, exe, raise_on_error, ignore_cache, outcome)
         IN /\ cache' = r.cache
            /\ feLast' = [n |-> feLast.n + 1,
                          exe |-> exe,
                          raise_on_error |-> raise_on_error,
                          ignore_cache |-> ignore_cache,
                          out |-> r.out,
                          probed |-> r.probed,
                          prior |-> feHist[exe]]
            /\ feHist' = [feHist EXCEPT ![exe] =
                            [prev |-> ResultOf(r.out),
                             failed |-> @.failed \/ ResultOf(r.out) = NoneObj]]
    /\ UNCHANGED <<host, fs, giLast, th, probes>>
    /\ UNCHANGED <<wheelVars, updateVars, recordVars>>

NextProbe == FromExeCall

SpecProbe == InitProbe /\ [][NextProbe]_vars

\* C8, the second of the two calls: a from_exe call without ignore_cache that
\* follows another call for the same path performs no probe and gives the
\* result the earlier call left: the same facts, or the failure (None, or an
\* exception).
C8_SecondCallFromCache ==
    (feLast.n > 0 /\ ~feLast.ignore_cache /\ feLast.prior.prev # Absent)
        => /\ ~feLast.probed
           /\ ResultOf(feLast.out) = feLast.prior.prev

\* C8, the first of the two calls: with nothing cached for the path it probes.
\* (Stated with C8_SecondCallFromCache as one formula below.)
C8_FirstCallProbes ==
    (feLast.n > 0 /\ feLast.prior.prev = Absent) => feLast.probed

\* C8: two from_exe calls for one path, the second without ignore_cache,
\* perform exactly one probe: the first call probes, the second does not and
\* gives the result the first one left.
C8_ExactlyOneProbe == C8_FirstCallProbes /\ C8_SecondCallFromCache

\* C8 witness: a second call for a path returned, without probing, the facts
\* the first call had stored.
C8_Witness ==
    /\ feLast.n > 0
    /\ ~feLast.ignore_cache
    /\ feLast.prior.prev # Absent
    /\ feLast.prior.prev # NoneObj
    /\ ~feLast.probed
    /\ feLast.out = Return(feLast.prior.prev)

\* C10 as stated: once from_exe has failed for a path, every later call
\* without ignore_cache performs no probe and returns None (raise_on_error
\* false) or raises (raise_on_error true).
C10_FailureCachedForever ==
    (feLast.n > 0 /\ ~feLast.ignore_cache /\ feLast.prior.failed)
        => /\ ~feLast.probed
           /\ IF feLast.raise_on_error
              THEN feLast.out.tag = "raise"
              ELSE feLast.out = Return(NoneObj)

\* C10 amended: once from_exe has failed for a path, every later call without
\* ignore_cache performs no probe; as long as the failure is the latest result
\* for the path (no ignore_cache call has re-probed it with success since) it
\* returns None (raise_on_error false) or raises (raise_on_error true), and
\* after such a re-probe it returns the facts that re-probe cached.
C10_FailureCachedUntilReprobe ==
    (feLast.n > 0 /\ ~feLast.ignore_cache /\ feLast.prior.failed)
        => /\ ~feLast.probed
           /\ IF feLast.prior.prev # NoneObj
              THEN feLast.out = Return(feLast.prior.prev)
              ELSE IF feLast.raise_on_error
              THEN feLast.out.tag = "raise"
              ELSE feLast.out = Return(NoneObj)

\* C10 witness: a call with raise_on_error found the cached failure and raised
\* without probing.
C10_Witness ==
    /\ feLast.n > 0
    /\ ~feLast.ignore_cache
    /\ feLast.prior.failed
    /\ feLast.prior.prev = NoneObj
    /\ feLast.raise_on_error
    /\ ~feLast.probed
    /\ feLast.out = Raise("RuntimeError")

-----------------------------------------------------------------------------
(* Specification SpecThreads: threads of one process inside from_exe. The   *)
(* method takes no lock, so its statements interleave: the cache test (line *)
(* 169), the answer from the cache (170-174), the probe cls() (178-179),    *)
(* and the store with the return or raise (180-187).                        *)

Threads == {"t1", "t2"}

\* from_exe calls per thread
MaxThreadCalls == 1

ThreadIdle == [pc |-> "idle", calls |-> 0]

InitThreads ==
    /\ host \in Hosts
    /\ fs = [d \in DirIds |-> Listing(<<Entry("python3", "exe")>>)]
    /\ cache = EmptyCache
    /\ giLast = NoCall
    /\ feLast = NoCall
    /\ feHist = <<>>
    /\ th = [t \in Threads |-> ThreadIdle]
    /\ probes = [p \in ProbePaths |-> 0]
    /\ WheelIdle
    /\ UpdateIdle
    /\ RecordIdle

\* line 169: the call starts and tests the cache
FeBegin(t) ==
    /\ th[t].pc \in {"idle", "done"}
    /\ th[t].calls < MaxThreadCalls
    /\ \E exe \in ProbePaths, raise_on_error \in BOOLEAN, ignore_cache \in BOOLEAN :
         th' = [th EXCEPT ![t] =
                  [pc |-> IF CacheHit(cache, exe, ignore_cache) THEN "hit" ELSE "miss",
                   calls |-> @.calls + 1,
                   exe |-> exe,
                   raise_on_error |-> raise_on_error,
                   ignore_cache |-> ignore_cache]]
    /\ UNCHANGED <<host, fs, cache, giLast, feLast, feHist, probes>>
    /\ UNCHANGED <<wheelVars, updateVars, recordVars>>

\* lines 170-174: the call is answered from the cache
FeAnswer(t) ==
    /\ th[t].pc = "hit"
    /\ th' = [th EXCEPT ![t] =
                 [pc |-> "done",
                  calls |-> @.calls,
                  exe |-> @.exe,
                  ignore_cache |-> @.ignore_cache,
                  probed |-> FALSE,
                  out |-> CacheAnswer(cache, @.exe, @.raise_on_error)]]
    /\ UNCHANGED <<host, fs, cache, giLast, feLast, feHist, probes>>
    /\ UNCHANGED <<wheelVars, updateVars, recordVars>>

\* lines 178-179 (or the exception that leads to line 182): the probe runs
FeProbe(t) ==
    /\ th[t].pc = "miss"
    /\ \E outcome \in ProbeOutcomes :
         th' = [th EXCEPT ![t] =
                  [pc |-> "probed",
                   calls |-> @.calls,
                   exe |-> @.exe,
                   raise_on_error |-> @.raise_on_error,
                   ignore_cache |-> @.ignore_cache,
                   outcome |-> outcome]]
    /\ probes' = IF th[t].ignore_cache THEN probes
                 ELSE [probes EXCEPT ![th[t].exe] = @ + 1]
    /\ UNCHANGED <<host, fs, cache, giLast, feLast, feHist>>
    /\ UNCHANGED <<wheelVars, updateVars, recordVars>>

\* lines 180-181 or 183-187: the result is stored, the call returns or raises
FeStore(t) ==
    /\ th[t].pc = "probed"
    /\ cache' = [cache EXCEPT ![th[t].exe] =
                    Stored(host, th[t].exe, th[t].outcome, @)]
    /\ th' = [th EXCEPT ![t] =
                 [pc |-> "done",
                  calls |-> @.calls,
                  exe |-> @.exe,
                  ignore_cache |-> @.ignore_cache,
                  probed |-> TRUE,
                  out |-> ProbeAnswer(host, @.exe, @.outcome, @.raise_on_error)]]
    /\ UNCHANGED <<host, fs, giLast, feLast, feHist, probes>>
    /\ UNCHANGED <<wheelVars, updateVars, recordVars>>

NextThreads == \E t \in Threads : FeBegin(t) \/ FeAnswer(t) \/ FeProbe(t) \/ FeStore(t)

SpecThreads == InitThreads /\ [][NextThreads]_vars

\* C9: calls of from_exe (without ignore_cache) made by several threads for the
\* same path are serialized on the cache: at most one of them probes the path.
C9_AtMostOneProbePerPath == \A p \in ProbePaths : probes[p] <= 1

-----------------------------------------------------------------------------
(* seed/wheels/util.py *)

\* the characters of the version strings of the model, as code points, so
\* that strings compare the way Python compares str
Chars(str) ==
    CASE str = "23.0" -> <<50, 51, 46, 48>>
      [] str = "23.1" -> <<50, 51, 46, 49>>
      [] str = "9.0" -> <<57, 46, 48>>
      [] str = "10.0" -> <<49, 48, 46, 48>>

\* str < str
RECURSIVE SeqLess(_, _)
SeqLess(a, b) ==
    IF b = <<>> THEN FALSE
    ELSE IF a = <<>> THEN TRUE
    ELSE IF Head(a) # Head(b) THEN Head(a) < Head(b)
    ELSE SeqLess(Tail(a), Tail(b))

StrLess(a, b) == SeqLess(Chars(a), Chars(b))

\* the files of the model: the hyphen-separated fields of the stem (path.stem
\* .split('-'); the fields after the second are kept as one) and the suffix
FileParts(file) ==
    CASE file = "pip-23.0-py3-none-any.whl" -> <<"pip", "23.0", "py3-none-any">>
      [] file = "pip-23.0-py2-none-any.whl" -> <<"pip", "23.0", "py2-none-any">>
      [] file = "pip-23.1-py3-none-any.whl" -> <<"pip", "23.1", "py3-none-any">>
      [] file = "pip-9.0-py3-none-any.whl" -> <<"pip", "9.0", "py3-none-any">>
      [] file = "pip-10.0-py3-none-any.whl" -> <<"pip", "10.0", "py3-none-any">>
      [] file = "pip.whl" -> <<"pip">>
      [] file = "setuptools-23.0-py3-none-any.whl" -> <<"setuptools", "23.0", "py3-none-any">>
      [] file = "pip-23.0-py3-none-any.txt" -> <<"pip", "23.0", "py3-none-any">>

FileSuffix(file) ==
    IF file = "pip-23.0-py3-none-any.txt" THEN ".txt" ELSE ".whl"

\* Wheel(path): path is <<directory, file name>>
Wheel(path) == [path |-> path, parts |-> FileParts(path[2])]

\* Wheel.name
WheelName(wheel) == wheel.parts[1]

\* Wheel.version raises IndexError when the stem has one field only
HasVersion(wheel) == Len(wheel.parts) >= 2

\* Wheel.version
WheelVersion(wheel) == wheel.parts[2]

\* sorted(wheels, key=attrgetter('version'), reverse=True): by the version
\* string, greatest first, wheels of equal version in their given order
RECURSIVE InsertDesc(_, _)
InsertDesc(sorted, w) ==
    IF sorted = <<>> THEN <<w>>
    ELSE IF StrLess(WheelVersion(Head(sorted)), WheelVersion(w))
    THEN <<w>> \o sorted
    ELSE <<Head(sorted)>> \o InsertDesc(Tail(sorted), w)

RECURSIVE SortedDesc(_)
SortedDesc(wheels) ==
    IF wheels = <<>> THEN <<>>
    ELSE InsertDesc(SortedDesc(SubSeq(wheels, 1, Len(wheels) - 1)),
                    wheels[Len(wheels)])

\* lines 39-43 of discover_wheels: the wheels of the distribution, in iterdir order
RECURSIVE WheelsOf(_, _, _)
WheelsOf(dir, files, distribution) ==
    IF files = <<>> THEN <<>>
    ELSE LET rest == WheelsOf(dir, Tail(files), distribution)
             wheel == Wheel(<<dir, Head(files)>>)
         IN IF FileSuffix(Head(files)) = ".whl" /\ WheelName(wheel) = distribution
            THEN <<wheel>> \o rest
            ELSE rest

\* discover_wheels(folder, distribution): `folder` is <<directory, listing>>
discover_wheels(folder, distribution) ==
    IF ~folder[2].ok THEN Raise("OSError")
    ELSE LET wheels == WheelsOf(folder[1], folder[2].entries, distribution)
         IN IF \E i \in 1..Len(wheels) : ~HasVersion(wheels[i])
            THEN Raise("IndexError")
            ELSE Return(SortedDesc(wheels))

-----------------------------------------------------------------------------
(* seed/wheels/bundle.py, seed/wheels/embed *)

\* the wheel bundled for a distribution and target version (BUNDLE_SUPPORT)
Bundled(distribution, for_py_version) ==
    IF distribution = "pip" /\ for_py_version = "3.11"
    THEN <<"embed", "pip-23.1-py3-none-any.whl">>
    ELSE <<>>

\* from_bundle(distribution, version, for_py_version): the bundled copy if the
\* requested version is the bundled one, else None
from_bundle(distribution, version, for_py_version) ==
    LET path == Bundled(distribution, for_py_version)
    IN IF path # <<>> /\ WheelVersion(Wheel(path)) = version
       THEN path
       ELSE <<>>

-----------------------------------------------------------------------------
(* seed/wheels/acquire.py *)

\* how the pip subprocess of download_wheel ends: Popen cannot run the
\* command (OSError), pip exits non-zero, pip exits 0 without a usable
\* "Saved" line, pip exits 0 and the saved file exists
DownloadOutcomes == {"cannot_run", "nonzero", "nothing_saved", "saved"}

\* pip_wheel_env_run(cmd, env)
pip_wheel_env_run(outcome) ==
    IF outcome = "cannot_run" THEN Raise("OSError")
    ELSE IF outcome = "nonzero" THEN Raise("CalledProcessError")
    ELSE Return(outcome)

\* the file pip saves for distribution==version
SavedFile(distribution, version) ==
    CASE distribution = "pip" /\ version = "23.0" -> "pip-23.0-py3-none-any.whl"
      [] distribution = "pip" /\ version = "23.1" -> "pip-23.1-py3-none-any.whl"

\* download_wheel(...): the saved path, None (<<>>), or the exception of the run
download_wheel(distribution, version, for_py_version, outcome) ==
    LET run == pip_wheel_env_run(outcome)
    IN IF run.tag = "raise" THEN run
       ELSE IF run.value = "saved"
       THEN Return(<<"download", SavedFile(distribution, version)>>)
       ELSE Return(<<>>)

\* add_wheel_to_update_log(versions, Wheel(wheel_path), 'download') as called
\* at line 67: release_date_for_wheel_path is handed a Wheel, not a path, and
\* Wheel.from_path reads its .stem: AttributeError
LogDownload(wheel_path) == Raise("AttributeError")

\* the first wheel of the list with the requested version (lines 57-59)
FirstWithVersion_Newest(wheels, version) ==
    IF wheels # <<>> THEN wheels[1].path ELSE <<>>

FirstWithVersion(wheels, version) ==
    IF \E i \in 1..Len(wheels) : WheelVersion(wheels[i]) = version
    THEN wheels[CHOOSE i \in 1..Len(wheels) :
                  /\ WheelVersion(wheels[i]) = version
                  /\ \A j \in 1..(i - 1) : WheelVersion(wheels[j]) # version].path
    ELSE <<>>

\* lines 55-59 of get_wheel, from the i-th search directory on: the path of
\* the local copy, None (<<>>), or the exception of discover_wheels
RECURSIVE LocalSearch(_, _, _, _, _)
LocalSearch(dirs, search_dirs, i, distribution, version) ==
    IF i > Len(search_dirs) THEN Return(<<>>)
    ELSE LET found == discover_wheels(<<search_dirs[i], dirs[search_dirs[i]]>>,
                                      distribution)
         IN IF found.tag = "raise" THEN found
            ELSE IF FirstWithVersion(found.value, version) # <<>>
            THEN Return(FirstWithVersion(found.value, version))
            ELSE LocalSearch(dirs, search_dirs, i + 1, distribution, version)

\* lines 70-75 of get_wheel: the bundled copy or None
BundleTier(distribution, version, for_py_version) ==
    Return(from_bundle(distribution, version, for_py_version))

\* get_wheel(...): the outcome (a path, None as <<>>, or an exception) and
\* whether download_wheel was called
get_wheel(dirs, distribution, version, for_py_version, search_dirs, download, do_periodic_update, outcome) ==
    LET local == LocalSearch(dirs, search_dirs, 1, distribution, version)
        fetched == download_wheel(distribution, version, for_py_version, outcome)
        bundle == BundleTier(distribution, version, for_py_version)
    IN IF local.tag = "raise" \/ local.value # <<>>
       THEN [out |-> local, downloaded |-> FALSE]
       ELSE IF ~download
       THEN [out |-> bundle, downloaded |-> FALSE]
       ELSE IF fetched.tag = "raise"
       THEN [out |-> fetched, downloaded |-> TRUE]
       ELSE IF fetched.value = <<>>
       THEN [out |-> bundle, downloaded |-> TRUE]
       ELSE IF do_periodic_update
       THEN [out |-> LogDownload(fetched.value), downloaded |-> TRUE]
       ELSE [out |-> fetched, downloaded |-> TRUE]

-----------------------------------------------------------------------------
(* Specification SpecWheel: get_wheel calls over search directories *)

WheelDirIds == {"w1", "w2"}

\* the search directories of the model
WheelListings ==
    { Unlistable,
      Listing(<<>>),
      Listing(<<"pip-23.0-py3-none-any.whl">>),
      Listing(<<"pip-23.0-py3-none-any.whl", "pip-23.1-py3-none-any.whl">>),
      Listing(<<"pip.whl", "pip-23.0-py3-none-any.whl">>),
      Listing(<<"setuptools-23.0-py3-none-any.whl", "pip-23.0-py3-none-any.txt">>),
      Listing(<<"pip-23.0-py2-none-any.whl", "pip-23.0-py3-none-any.whl">>) }

\* the values of the search_dirs argument
SearchDirLists == { <<>>, <<"w1">>, <<"w1", "w2">>, <<"w2", "w1">> }

Distributions == {"pip"}

Versions == {"23.0", "23.1"}

InitWheel ==
    /\ wheelDirs \in [WheelDirIds -> WheelListings]
    /\ gwLast = NoCall
    /\ dl = NoDownload
    /\ DiscoveryHostIdle
    /\ UpdateIdle
    /\ RecordIdle

GetWheel ==
    /\ \E distribution \in Distributions, version \in Versions,
          search_dirs \in SearchDirLists, download \in BOOLEAN,
          do_periodic_update \in BOOLEAN :
       \E outcome \in (IF download THEN DownloadOutcomes ELSE {"saved"}) :
         LET r == get_wheel(wheelDirs, distribution, version, "3.11", search_dirs,
                            download, do_periodic_update, outcome)
         IN gwLast' = [n |-> 1,
                       distribution |-> distribution,
                       version |-> version,
                       for_py_version |-> "3.11",
                       search_dirs |-> search_dirs,
                       download |-> download,
                       do_periodic_update |-> do_periodic_update,
                       outcome |-> outcome,
                       out |-> r.out,
                       downloaded |-> r.downloaded]
    /\ UNCHANGED <<wheelDirs, dl>>
    /\ UNCHANGED <<discoveryVars, updateVars, recordVars>>

NextWheel == GetWheel

SpecWheel == InitWheel /\ [][NextWheel]_vars

\* file f of search directory d is an archive of the distribution with
\* exactly the requested version string
IsLocalCopy(d, f, distribution, version) ==
    /\ FileSuffix(f) = ".whl"
    /\ Len(FileParts(f)) >= 2
    /\ FileParts(f)[1] = distribution
    /\ FileParts(f)[2] = version

\* the local copies held by the i-th search directory of the last call
LocalCopiesAt(i) ==
    LET d == gwLast.search_dirs[i]
    IN IF ~wheelDirs[d].ok THEN {}
       ELSE { <<d, wheelDirs[d].entries[k]>> : k \in
                { k \in 1..Len(wheelDirs[d].entries) :
                    IsLocalCopy(d, wheelDirs[d].entries[k],
                                gwLast.distribution, gwLast.version) } }

\* the local copies held by the search directories of the last call
LocalCopies == UNION { LocalCopiesAt(i) : i \in 1..Len(gwLast.search_dirs) }

\* the i-th search directory of the last call can be scanned: it can be
\* listed, and every .whl of the distribution in it has a version field
Scannable(i) ==
    LET d == gwLast.search_dirs[i]
    IN /\ wheelDirs[d].ok
       /\ \A k \in 1..Len(wheelDirs[d].entries) :
            LET f == wheelDirs[d].entries[k]
            IN (FileSuffix(f) = ".whl" /\ FileParts(f)[1] = gwLast.distribution)
                  => Len(FileParts(f)) >= 2

\* the first search directory of the last call that holds a local copy
FirstLocalDir ==
    CHOOSE i \in 1..Len(gwLast.search_dirs) :
        /\ LocalCopiesAt(i) # {}
        /\ \A j \in 1..(i - 1) : LocalCopiesAt(j) = {}

C4_DownloadFailureAbsorbed ==
    (gwLast.n > 0 /\ gwLast.downloaded
       /\ gwLast.outcome \in {"cannot_run", "nonzero"})
        => gwLast.out = Return(from_bundle(gwLast.distribution, gwLast.version,
                                           gwLast.for_py_version))

\* C15: after a successful network download get_wheel returns the downloaded
\* path and raises no error, whatever becomes of the update-log entry.
C15_DownloadedPathReturned ==
    (gwLast.n > 0 /\ gwLast.downloaded /\ gwLast.outcome = "saved")
        => gwLast.out = Return(<<"download",
                                 SavedFile(gwLast.distribution, gwLast.version)>>)

-----------------------------------------------------------------------------
(* seed/wheels/periodic_update.py; time is counted in minutes *)

\* timedelta(days=14)
UPDATE_PERIOD == 14 * 24 * 60

\* timedelta(hours=1)
UPDATE_ABORTED_DELAY == 60

\* a 'started' or 'completed' string that does not match DATETIME_FMT
Unparseable == 0 - 2

\* the update log file: missing, no JSON at all, a JSON value that is no
\* object, or a JSON object with its 'started' and 'completed' (NoneInt: null
\* or missing key)
NoLog == [kind |-> "absent"]

NotJson == [kind |-> "not_json"]

NotObject == [kind |-> "not_object"]

LogDoc(started, completed) ==
    [kind |-> "doc", started |-> started, completed |-> completed]

\* load_datetime(raw): None for None, ValueError for a string strptime rejects
load_datetime(raw) ==
    IF raw = Unparseable THEN Raise("ValueError") ELSE Return(raw)

\* datetime.now(tz=utc) - since > period (lines 117 and 120)
Elapsed_Inclusive(clock, since, period) == clock - since >= period

Elapsed(clock, since, period) == clock - since > period

\* lines 109-113: json.load of the file, {} for a JSONDecodeError
LoadData(log) == IF log.kind = "not_json" THEN LogDoc(NoneInt, NoneInt) ELSE log

\* periodic_update(distribution, for_py_version) up to its decision: "trigger"
\* (trigger_update is called), "noop" (it returns at once), or the exception
\* it raises
periodic_update(log, clock) ==
    IF log.kind = "absent" THEN Return("trigger")
    ELSE IF log.kind = "not_object" THEN Raise("AttributeError")
    ELSE LET data == LoadData(log)
             completed == load_datetime(data.completed)
             started == load_datetime(data.started)
         IN IF completed.tag = "raise" THEN completed
            ELSE IF completed.value = NoneInt
            THEN IF started.tag = "raise" THEN started
                 ELSE IF started.value = NoneInt
                         \/ Elapsed(clock, started.value, UPDATE_ABORTED_DELAY)
                 THEN Return("trigger")
                 ELSE Return("noop")
            ELSE IF Elapsed(clock, completed.value, UPDATE_PERIOD)
            THEN Return("trigger")
            ELSE Return("noop")

-----------------------------------------------------------------------------
(* Specification SpecUpdate: processes calling periodic_update for one      *)
(* distribution; they share the update log on disk and the wall clock       *)

Callers == {"c1", "c2"}

\* clock ticks (minutes) per run of the model
MaxTicks == 2

\* refreshes launched per run of the model
MaxLaunches == 2

\* the wall clock at the start: 21 days after the epoch of the model
StartTime == 21 * 24 * 60

\* how long before the start the timestamps of the log were written
Ages ==
    { 0, 30, 59, 60, 120, 2 * 24 * 60,
      UPDATE_PERIOD - 1, UPDATE_PERIOD, 20 * 24 * 60 }

LogTimes == { NoneInt, Unparseable } \cup { StartTime - a : a \in Ages }

InitUpdate ==
    /\ updLog \in { NoLog, NotJson, NotObject }
                  \cup { LogDoc(s, c) : s \in LogTimes, c \in LogTimes }
    /\ now = StartTime
    /\ pu = [c \in Callers |-> [pc |-> "idle", calls |-> 0]]
    /\ child = [c \in Callers |-> "none"]
    /\ launches = [seq |-> <<>>, firstDone |-> NoneInt]
    /\ DiscoveryHostIdle
    /\ WheelIdle
    /\ RecordIdle

\* a launch falls in the protected window of the first refresh: that refresh
\* is in flight and started less than an hour ago, or it completed less than
\* 14 days ago
InFirstWindow ==
    /\ launches.seq # <<>>
    /\ \/ /\ launches.firstDone = NoneInt
          /\ now - launches.seq[1].at < UPDATE_ABORTED_DELAY
       \/ /\ launches.firstDone # NoneInt
          /\ now - launches.firstDone < UPDATE_PERIOD

\* a process calls periodic_update: it returns (or raises) at once, or it
\* calls trigger_update, which spawns the refresh process (lines 86-91) and
\* then stands at process.communicate() (line 92)
PeriodicUpdate(c) ==
    /\ pu[c].pc = "idle"
    /\ Len(launches.seq) < MaxLaunches
    /\ LET d == periodic_update(updLog, now)
           triggers == d = Return("trigger")
       IN /\ pu' = [pu EXCEPT ![c] =
                       [pc |-> IF triggers THEN "communicate" ELSE "idle",
                        calls |-> 1,
                        at |-> now,
                        decision |-> d]]
          /\ child' = IF triggers THEN [child EXCEPT ![c] = "running"] ELSE child
          /\ launches' =
                IF triggers
                THEN [launches EXCEPT !.seq =
                        Append(@, [at |-> now, by |-> c,
                                   nolog |-> updLog = NoLog,
                                   inFirstWindow |-> InFirstWindow])]
                ELSE launches
    /\ UNCHANGED <<updLog, now>>
    /\ UNCHANGED <<discoveryVars, wheelVars, recordVars>>

\* the refresh process runs to its end. do_update (lines 94-96) is empty and
\* nothing else in the module writes the log: 'started' and 'completed' are
\* never written
DoUpdate(c) ==
    /\ child[c] = "running"
    /\ child' = [child EXCEPT ![c] = "exited"]
    /\ launches' = IF launches.seq[1].by = c /\ launches.firstDone = NoneInt
                   THEN [launches EXCEPT !.firstDone = now]
                   ELSE launches
    /\ UNCHANGED <<updLog, now, pu>>
    /\ UNCHANGED <<discoveryVars, wheelVars, recordVars>>

\* line 92: process.communicate() returns once the refresh process has ended;
\* trigger_update and periodic_update return
CommunicateReturns(c) ==
    /\ pu[c].pc = "communicate"
    /\ child[c] = "exited"
    /\ pu' = [pu EXCEPT ![c].pc = "idle"]
    /\ child' = [child EXCEPT ![c] = "none"]
    /\ UNCHANGED <<updLog, now, launches>>
    /\ UNCHANGED <<discoveryVars, wheelVars, recordVars>>

\* a minute passes
Tick ==
    /\ now < StartTime + MaxTicks
    /\ now' = now + 1
    /\ UNCHANGED <<updLog, pu, child, launches>>
    /\ UNCHANGED <<discoveryVars, wheelVars, recordVars>>

NextUpdate ==
    \/ \E c \in Callers : PeriodicUpdate(c) \/ DoUpdate(c) \/ CommunicateReturns(c)
    \/ Tick

SpecUpdate == InitUpdate /\ [][NextUpdate]_vars

\* the log exists and decodes: a JSON object whose 'started' and 'completed'
\* are each unset or a timestamp
Readable(log) ==
    /\ log.kind = "doc"
    /\ log.started # Unparseable
    /\ log.completed # Unparseable

\* the cases in which C5 says a refresh is triggered
C5_Due(log, clock) ==
    \/ log.completed # NoneInt /\ clock - log.completed > 14 * 24 * 60
    \/ /\ log.completed = NoneInt
       /\ log.started = NoneInt \/ clock - log.started > 60

\* C5: for an existing, readable log periodic_update triggers a refresh
\* exactly when 'completed' is set and more than 14 days old, or 'completed'
\* is unset and 'started' is unset or more than 1 hour old; in every other
\* case it triggers nothing (and returns).
C5_TriggersExactlyWhenDue ==
    \A c \in Callers :
        (pu[c].calls > 0 /\ Readable(updLog))
            => pu[c].decision =
                 (IF C5_Due(updLog, pu[c].at) THEN Return("trigger") ELSE Return("noop"))

\* C5 witness: a log whose 'started' is exactly one hour old and whose
\* 'completed' is unset triggered nothing; one minute later it would.
C5_Witness ==
    \E c \in Callers :
        /\ pu[c].calls > 0
        /\ Readable(updLog)
        /\ updLog.completed = NoneInt
        /\ updLog.started # NoneInt
        /\ pu[c].at - updLog.started = 60
        /\ pu[c].decision = Return("noop")

\* the log exists and cannot be decoded: malformed JSON, a JSON value that is
\* no object, or a timestamp that does not parse
C14_Undecodable(log) ==
    \/ log.kind \in {"not_json", "not_object"}
    \/ log.kind = "doc" /\ Unparseable \in {log.started, log.completed}

\* C14: an update log that exists but cannot be decoded is treated as an empty
\* log: periodic_update raises no error and triggers a refresh.
C14_UndecodableLogIsEmpty ==
    \A c \in Callers :
        (pu[c].calls > 0 /\ C14_Undecodable(updLog))
            => pu[c].decision = Return("trigger")

\* C6: after periodic_update has triggered a refresh for a distribution
\* without update log, no second refresh is launched while the first is in
\* flight (less than 1 hour after its start) or less than 14 days after its
\* completion.
C6_OneRefreshPerWindow ==
    \A j \in 2..Len(launches.seq) :
        launches.seq[1].nolog => ~launches.seq[j].inFirstWindow

\* C7: triggering is non-blocking: once the refresh process is spawned, the
\* caller can return whether or not that process has finished.
C7_TriggerDoesNotBlock ==
    \A c \in Callers : pu[c].pc = "communicate" => ENABLED CommunicateReturns(c)

-----------------------------------------------------------------------------
(* Specification SpecFacts: the pure methods of PythonInfo, called on the    *)
(* facts of a runtime                                                         *)

\* the runtimes whose facts satisfies() is asked about
FactHosts ==
    Hosts \cup
    { [implementation |-> "PyPy", version_info |-> <<3, 10, 1>>, architecture |-> 64] }

\* the specifications satisfies() is called with: each field absent or set
SatSpecs ==
    { [implementation |-> i, major |-> ma, minor |-> mi, micro |-> mc,
       architecture |-> a, path |-> NoPath] :
         i \in {NoneStr, "CPython", "PyPy"}, ma \in {NoneInt, 3},
         mi \in {NoneInt, 10, 11}, mc \in {NoneInt, 0, 1}, a \in {NoneInt, 32, 64} }

\* the fields of a specification satisfies() reads, and the values one can take
SpecFields == {"implementation", "architecture", "major", "minor", "micro"}

FieldAbsent(spec, field) ==
    IF field = "implementation" THEN spec.implementation = NoneStr
    ELSE spec[field] = NoneInt

FieldValues(field) ==
    CASE field = "implementation" -> {"CPython", "PyPy"}
      [] field = "architecture" -> {32, 64}
      [] field = "major" -> {3}
      [] field = "minor" -> {10, 11}
      [] field = "micro" -> {0, 1}

\* what sys reports about the prefixes of the running interpreter, as read by
\* PythonInfo.__init__ (lines 45-50); None where sys has no such attribute
SysPrefixes ==
    { [prefix |-> p, base_prefix |-> bp, real_prefix |-> rp,
       exec_prefix |-> ep, base_exec_prefix |-> bep, executable |-> exe] :
         p \in {"/usr", "/venv"}, bp \in {NoneStr, "/usr"}, rp \in {NoneStr, "/usr"},
         ep \in {"/usr", "/venv"}, bep \in {NoneStr, "/usr"},
         exe \in {"/usr/bin/python3", "/venv/bin/python"} }

\* PythonInfo._fast_get_system_executable(self)
fast_get_system_executable(self) ==
    IF self.base_prefix = NoneStr /\ self.base_exec_prefix = NoneStr
    THEN self.executable
    ELSE IF self.real_prefix # NoneStr
    THEN self.executable
    ELSE IF self.prefix # self.base_prefix /\ self.base_prefix # NoneStr
    THEN NoneStr
    ELSE IF self.exec_prefix # self.base_exec_prefix /\ self.base_exec_prefix # NoneStr
    THEN NoneStr
    ELSE self.executable

\* a call that was made and has not returned yet
Pending(fn, args) == [fn |-> fn, args |-> args, done |-> FALSE, result |-> NoneObj]

\* the calls of satisfies: facts, specification, impl_must_match
SatisfiesCalls ==
    { Pending("satisfies", [facts |-> PythonInfo(h), spec |-> spec,
                            impl_must_match |-> impl_must_match]) :
        h \in FactHosts, spec \in SatSpecs, impl_must_match \in BOOLEAN }

\* the pairs of calls of satisfies with spec and with tight, which is spec with
\* the absent field `field` set
TightenedCalls ==
    UNION { UNION { { Pending("satisfies_tightened",
                              [facts |-> c.args.facts, spec |-> c.args.spec,
                               impl_must_match |-> c.args.impl_must_match,
                               field |-> field,
                               tight |-> [c.args.spec EXCEPT ![field] = value]]) :
                        value \in FieldValues(field) } :
                    field \in { f \in SpecFields : FieldAbsent(c.args.spec, f) } } :
            c \in SatisfiesCalls }

SystemExecutableCalls ==
    { Pending("system_executable", [self |-> self]) : self \in SysPrefixes }

InitFacts ==
    /\ DiscoveryHostIdle
    /\ WheelIdle
    /\ UpdateIdle
    /\ versions = <<>>
    /\ call \in SatisfiesCalls \cup TightenedCalls \cup SystemExecutableCalls

\* info.satisfies(spec, impl_must_match)
Satisfies ==
    /\ call.fn = "satisfies" /\ ~call.done
    /\ call' = [call EXCEPT !.done = TRUE,
                   !.result = satisfies(call.args.facts, call.args.spec,
                                        call.args.impl_must_match)]
    /\ UNCHANGED <<discoveryVars, wheelVars, updateVars, versions>>

\* info.satisfies(spec, ...) and info.satisfies(tight, ...)
SatisfiesTightened ==
    /\ call.fn = "satisfies_tightened" /\ ~call.done
    /\ call' = [call EXCEPT !.done = TRUE,
                   !.result = [loose |-> satisfies(call.args.facts, call.args.spec,
                                                   call.args.impl_must_match),
                               tight |-> satisfies(call.args.facts, call.args.tight,
                                                   call.args.impl_must_match)]]
    /\ UNCHANGED <<discoveryVars, wheelVars, updateVars, versions>>

\* PythonInfo.__init__, line 52: system_executable of the running interpreter
SystemExecutable ==
    /\ call.fn = "system_executable" /\ ~call.done
    /\ call' = [call EXCEPT !.done = TRUE,
                   !.result = fast_get_system_executable(call.args.self)]
    /\ UNCHANGED <<discoveryVars, wheelVars, updateVars, versions>>

NextFacts == Satisfies \/ SatisfiesTightened \/ SystemExecutable

SpecFacts == InitFacts /\ [][NextFacts]_vars

\* one optional equality check of C11: the requirement is absent, or the fact
\* is absent, or the two are equal
C11_ComponentOk(req, our) == req = NoneInt \/ our = NoneInt \/ req = our

\* C11: satisfies(spec, impl_must_match) is true if and only if
\* (spec.implementation is absent, or impl_must_match is false, or it equals
\* the facts' implementation) and (spec.architecture is absent or equals the
\* facts' architecture) and each of major, minor, micro is absent in the spec,
\* absent in the facts, or equal; versions are never compared by order.
C11_SatisfiesIsConjunction ==
    (call.fn = "satisfies" /\ call.done) =>
        LET spec == call.args.spec
            facts == call.args.facts
        IN call.result =
            (/\ \/ spec.implementation = NoneStr
                \/ ~call.args.impl_must_match
                \/ spec.implementation = facts.implementation
             /\ \/ spec.architecture = NoneInt
                \/ spec.architecture = facts.architecture
             /\ C11_ComponentOk(spec.major, facts.version_info[1])
             /\ C11_ComponentOk(spec.minor, facts.version_info[2])
             /\ C11_ComponentOk(spec.micro, facts.version_info[3]))

\* C11 witness: a 3.11 runtime asked for 3.10 is rejected although it is
\* newer, while its implementation and architecture are accepted
C11_Witness ==
    /\ call.fn = "satisfies" /\ call.done
    /\ call.args.spec.implementation = "CPython" /\ call.args.impl_must_match
    /\ call.args.spec.architecture = 64
    /\ call.args.spec.major = 3
    /\ call.args.spec.minor = 10
    /\ call.args.spec.micro = NoneInt
    /\ call.args.facts.version_info = <<3, 11, 0>>
    /\ call.args.facts.implementation = "CPython"
    /\ call.args.facts.architecture = 64
    /\ call.result = FALSE

\* C12: satisfies is monotone: when S' is S with one absent field set,
\* F.satisfies(S') implies F.satisfies(S).
C12_TighteningNeverAdds ==
    (call.fn = "satisfies_tightened" /\ call.done)
        => (call.result.tight => call.result.loose)

\* C12 witness: a specification was tightened by the minor version of the
\* runtime and both it and the looser one are satisfied
C12_Witness ==
    /\ call.fn = "satisfies_tightened" /\ call.done
    /\ call.args.field = "minor"
    /\ call.args.tight.minor = call.args.facts.version_info[2]
    /\ call.result.tight
    /\ call.result.loose

\* C19: system_executable is null whenever real_prefix is set, or prefix
\* differs from a defined base_prefix, or exec_prefix differs from a defined
\* base_exec_prefix; when it is non-null it is the runtime's own executable.
C19_SystemExecutableOnlyOutsideEnv ==
    (call.fn = "system_executable" /\ call.done) =>
        LET f == call.args.self
        IN /\ ( \/ f.real_prefix # NoneStr
                \/ f.base_prefix # NoneStr /\ f.prefix # f.base_prefix
                \/ f.base_exec_prefix # NoneStr /\ f.exec_prefix # f.base_exec_prefix )
              => call.result = NoneStr
           /\ call.result # NoneStr => call.result = f.executable

-----------------------------------------------------------------------------
(* Specification SpecWheelFiles: the functions of seed/wheels/util.py, called *)
(* on the files of one folder                                                 *)

\* files per folder
MaxFolderFiles == 3

\* the file names a folder can hold
WheelFiles ==
    { "pip-9.0-py3-none-any.whl", "pip-10.0-py3-none-any.whl",
      "pip-23.0-py3-none-any.whl", "pip-23.0-py2-none-any.whl",
      "setuptools-23.0-py3-none-any.whl", "pip-23.0-py3-none-any.txt", "pip.whl" }

\* the folders: iterdir() raises, or yields distinct files in some order
FolderListings ==
    { Unlistable } \cup
    { Listing(files) :
        files \in UNION { { f \in [1..n -> WheelFiles] :
                              \A i, j \in 1..n : i # j => f[i] # f[j] } :
                          n \in 0..MaxFolderFiles } }

\* a Wheel object: Wheel(path) held at its own place in memory (id)
WheelObject(id, path) == [id |-> id, wheel |-> Wheel(path)]

\* a == b for two Wheel objects: the class defines no __eq__, so object's
\* default applies, which is identity
WheelEq(a, b) == a.id = b.id

DiscoverWheelsCalls ==
    { Pending("discover_wheels", [folder |-> <<"w1", l>>, distribution |-> d]) :
        l \in FolderListings, d \in {"pip", "setuptools"} }

\* the comparisons: an object with itself, or with another object made from
\* any path
WheelEqCalls ==
    LET paths == { <<d, f>> : d \in WheelDirIds,
                              f \in { g \in WheelFiles : Len(FileParts(g)) >= 2 } }
    IN { Pending("wheel_eq", [a |-> WheelObject(1, pa), b |-> WheelObject(1, pa)]) :
           pa \in paths }
       \cup
       { Pending("wheel_eq", [a |-> WheelObject(1, pp[1]), b |-> WheelObject(2, pp[2])]) :
           pp \in paths \X paths }

InitWheelFiles ==
    /\ DiscoveryHostIdle
    /\ WheelIdle
    /\ UpdateIdle
    /\ versions = <<>>
    /\ call \in DiscoverWheelsCalls \cup WheelEqCalls

\* discover_wheels(folder, distribution)
DiscoverWheels ==
    /\ call.fn = "discover_wheels" /\ ~call.done
    /\ call' = [call EXCEPT !.done = TRUE,
                   !.result = discover_wheels(call.args.folder, call.args.distribution)]
    /\ UNCHANGED <<discoveryVars, wheelVars, updateVars, versions>>

\* a == b
CompareWheels ==
    /\ call.fn = "wheel_eq" /\ ~call.done
    /\ call' = [call EXCEPT !.done = TRUE, !.result = WheelEq(call.args.a, call.args.b)]
    /\ UNCHANGED <<discoveryVars, wheelVars, updateVars, versions>>

NextWheelFiles == DiscoverWheels \/ CompareWheels

SpecWheelFiles == InitWheelFiles /\ [][NextWheelFiles]_vars

\* a version string read as a version: its numeric components
C17_Components(version) ==
    CASE version = "9.0" -> <<9, 0>>
      [] version = "10.0" -> <<10, 0>>
      [] version = "23.0" -> <<23, 0>>
      [] version = "23.1" -> <<23, 1>>

\* version a is not older than version b, compared component by component
C17_NotOlder(a, b) ==
    LET x == C17_Components(a)
        y == C17_Components(b)
    IN x[1] > y[1] \/ (x[1] = y[1] /\ x[2] >= y[2])

\* the .whl files of the folder whose distribution name is the requested one
C17_Expected(folder, distribution) ==
    { k \in 1..Len(folder[2].entries) :
        /\ FileSuffix(folder[2].entries[k]) = ".whl"
        /\ FileParts(folder[2].entries[k])[1] = distribution }

\* C17: for a folder that can be listed and whose archives of the distribution
\* all carry a version, discover_wheels returns exactly the .whl archives of
\* the folder whose distribution name is the requested one, newest version
\* first, versions compared component by component (10.0 before 9.0).
C17_NewestFirstByVersion ==
    LET folder == call.args.folder
        expected == C17_Expected(folder, call.args.distribution)
    IN ( /\ call.fn = "discover_wheels" /\ call.done
         /\ folder[2].ok
         /\ \A k \in expected : Len(FileParts(folder[2].entries[k])) >= 2 )
       => /\ call.result.tag = "return"
          /\ Len(call.result.value) = Cardinality(expected)
          /\ { call.result.value[i].path : i \in 1..Len(call.result.value) }
                = { <<folder[1], folder[2].entries[k]>> : k \in expected }
          /\ \A i, j \in 1..Len(call.result.value) :
                i < j => C17_NotOlder(call.result.value[i].parts[2],
                                      call.result.value[j].parts[2])

\* C18: two Wheel descriptors compare equal if and only if their distribution
\* names are equal and their version strings are equal, whatever their paths
\* and remaining file name fields.
C18_EqualByNameAndVersion ==
    (call.fn = "wheel_eq" /\ call.done)
        => call.result = ( /\ call.args.a.wheel.parts[1] = call.args.b.wheel.parts[1]
                           /\ call.args.a.wheel.parts[2] = call.args.b.wheel.parts[2] )

-----------------------------------------------------------------------------
(* Specification SpecLog: the operations of the subsystem that are handed   *)
(* the version records of the update log of one distribution                *)

\* version records per log
MaxVersions == 3

\* how the look-up of release_date_for_wheel_path ends: urlopen raises
\* URLError, the answer is no JSON, another exception is raised (a time-out
\* while reading, a release without 'upload_time'), PyPI does not list the
\* file, PyPI lists it
LookupOutcomes == {"URLError", "JSONDecodeError", "other_error", "not_listed", "found"}

\* the `wheel` argument of add_wheel_to_update_log: a pathlib.Path, or a
\* Wheel object as get_wheel passes it
PathArg(path) == [kind |-> "Path", path |-> path]

WheelArg(path) == [kind |-> "Wheel", path |-> path]

\* NewVersion(filename, found_date, release_date, source)
NewVersion(filename, found_date, release_date, source) ==
    [filename |-> filename, found_date |-> found_date,
     release_date |-> release_date, source |-> source]

\* release_date_for_wheel_path(path): Wheel.from_path(path) reads path.stem,
\* which a Wheel object does not have; wheel.version is read at line 72
release_date_for_wheel_path(path, lookup) ==
    IF path.kind # "Path" THEN Raise("AttributeError")
    ELSE IF lookup \in {"URLError", "JSONDecodeError"} THEN Return(NoneInt)
    ELSE IF lookup = "other_error" THEN Raise("Exception")
    ELSE IF ~HasVersion(Wheel(path.path)) THEN Raise("IndexError")
    ELSE IF lookup = "found" THEN Return(0)
    ELSE Return(NoneInt)

\* add_wheel_to_update_log(versions, wheel, source): the list afterwards and
\* the outcome of the call
add_wheel_to_update_log_Replaces(vs, wheel, source, lookup, clock) ==
    LET release_date == release_date_for_wheel_path(wheel, lookup)
    IN IF release_date.tag = "raise" THEN [versions |-> vs, out |-> release_date]
       ELSE [versions |-> <<NewVersion(wheel.path[2], clock, release_date.value, source)>>,
             out |-> Return(NoneObj)]

add_wheel_to_update_log(vs, wheel, source, lookup, clock) ==
    LET release_date == release_date_for_wheel_path(wheel, lookup)
    IN IF release_date.tag = "raise" THEN [versions |-> vs, out |-> release_date]
       ELSE IF release_date.value = NoneInt
       THEN [versions |-> vs, out |-> Return(NoneObj)]
       ELSE [versions |-> Append(vs, NewVersion(wheel.path[2], clock,
                                                release_date.value, source)),
             out |-> Return(NoneObj)]

\* the wheels handed to add_wheel_to_update_log
LoggedWheels ==
    { PathArg(<<"download", f>>) :
        f \in {"pip-23.0-py3-none-any.whl", "pip-23.1-py3-none-any.whl", "pip.whl"} }
    \cup { WheelArg(<<"download", "pip-23.0-py3-none-any.whl">>) }

InitLog ==
    /\ versions = <<>>
    /\ call = NoFn
    /\ updLog \in { NoLog, LogDoc(StartTime - 30, NoneInt) }
    /\ now = StartTime
    /\ pu = <<>>
    /\ child = <<>>
    /\ launches = [seq |-> <<>>, firstDone |-> NoneInt]
    /\ DiscoveryHostIdle
    /\ WheelIdle

\* add_wheel_to_update_log(versions, wheel, source)
AddWheelToUpdateLog ==
    /\ Len(versions) < MaxVersions
    /\ \E wheel \in LoggedWheels, source \in {"download", "periodic"},
          lookup \in LookupOutcomes :
         LET r == add_wheel_to_update_log(versions, wheel, source, lookup, now)
         IN /\ versions' = r.versions
            /\ call' = [fn |-> "add_wheel_to_update_log", done |-> TRUE, result |-> r.out]
    /\ UNCHANGED <<discoveryVars, wheelVars, updateVars>>

\* get_wheel(..., download=True, ...) with no search directory: line 67 is
\* reached when the download saved a file and do_periodic_update is set
GetWheelLogged ==
    /\ Len(versions) < MaxVersions
    /\ \E version \in Versions, outcome \in DownloadOutcomes,
          do_periodic_update \in BOOLEAN, lookup \in LookupOutcomes :
         LET r == get_wheel(wheelDirs, "pip", version, "3.11", <<>>, TRUE,
                            do_periodic_update, outcome)
             fetched == download_wheel("pip", version, "3.11", outcome)
             logged == add_wheel_to_update_log(versions, WheelArg(fetched.value),
                                               "download", lookup, now)
         IN /\ versions' = IF /\ fetched.tag = "return"
                              /\ fetched.value # <<>>
                              /\ do_periodic_update
                           THEN logged.versions
                           ELSE versions
            /\ call' = [fn |-> "get_wheel", done |-> TRUE, result |-> r.out]
    /\ UNCHANGED <<discoveryVars, wheelVars, updateVars>>

\* periodic_update(distribution, for_py_version): it reads the log
PeriodicUpdateLogged ==
    /\ call' = [fn |-> "periodic_update", done |-> TRUE,
                result |-> periodic_update(updLog, now)]
    /\ UNCHANGED versions
    /\ UNCHANGED <<discoveryVars, wheelVars, updateVars>>

NextLog == AddWheelToUpdateLog \/ GetWheelLogged \/ PeriodicUpdateLogged

SpecLog == InitLog /\ [][NextLog]_vars

\* C16: the version records are append-only: every operation leaves the
\* records present before in place, unchanged and in the same order, and adds
\* at most one record, at the end.
C16_VersionsAppendOnly ==
    [][ /\ Len(versions') >= Len(versions)
        /\ Len(versions') <= Len(versions) + 1
        /\ SubSeq(versions', 1, Len(versions)) = versions ]_vars

\* C16 witness: add_wheel_to_update_log appended a record of another file
\* behind an older record
C16_Witness ==
    /\ call.fn = "add_wheel_to_update_log"
    /\ Len(versions) >= 2
    /\ versions[Len(versions)].filename # versions[1].filename

-----------------------------------------------------------------------------
(* Specification SpecSpelling: PythonInfo.from_exe calls, one after the     *)
(* other, whose path argument is spelled in different ways                  *)

\* from_exe calls per run of the model
MaxSpelledCalls == 2

\* the values of the `exe` argument: a str or a pathlib.Path, absolute or
\* relative to the working directory "/"
Spelling(type, text) == [type |-> type, text |-> text]

Spellings ==
    { Spelling("str", "/d1/python3"), Spelling("str", "d1/python3"),
      Spelling("Path", "/d1/python3"), Spelling("str", "/d2/python3") }

\* info.fs_path_id(path) on POSIX: os.path.abspath(path), a str
fs_path_id(path) ==
    IF path.text = "d1/python3" THEN "/d1/python3" ELSE path.text

InitSpelling ==
    /\ host = CHOOSE h \in Hosts : h.architecture = 64
    /\ fs = [d \in DirIds |-> Listing(<<Entry("python3", "exe")>>)]
    /\ cache = [p \in Spellings |-> Absent]
    /\ giLast = NoCall
    /\ feLast = NoCall
    /\ feHist = <<>>
    /\ th = <<>>
    /\ probes = <<>>
    /\ WheelIdle
    /\ UpdateIdle
    /\ RecordIdle

\* PythonInfo.from_exe(exe, raise_on_error=..., ignore_cache=...); `known`
\* records whether an earlier call stored an entry for the same file
FromExeSpelled ==
    /\ feLast.n < MaxSpelledCalls
    /\ \E exe \in Spellings, raise_on_error \in BOOLEAN, ignore_cache \in BOOLEAN,
          outcome \in ProbeOutcomes :
         LET r == from_exe(cache, host, exe, raise_on_error, ignore_cache, outcome)
         IN /\ cache' = r.cache
            /\ feLast' = [n |-> feLast.n + 1,
                          exe |-> exe,
                          raise_on_error |-> raise_on_error,
                          ignore_cache |-> ignore_cache,
                          out |-> r.out,
                          probed |-> r.probed,
                          known |-> \E p \in Spellings :
                                       /\ fs_path_id(p) = fs_path_id(exe)
                                       /\ cache[p] # Absent]
    /\ UNCHANGED <<host, fs, giLast, feHist, th, probes>>
    /\ UNCHANGED <<wheelVars, updateVars, recordVars>>

NextSpelling == FromExeSpelled

SpecSpelling == InitSpelling /\ [][NextSpelling]_vars

\* C20: the probe cache is keyed by normalized absolute path: a from_exe call
\* without ignore_cache whose path denotes the same normalized absolute path
\* as an earlier call's (a relative and an absolute spelling, a str and a
\* Path) finds that call's entry and performs no new probe.
C20_SameFileSameEntry ==
    (feLast.n > 0 /\ ~feLast.ignore_cache /\ feLast.known) => ~feLast.probed

-----------------------------------------------------------------------------
(* Specification SpecDownload: get_wheel calls, step by step, with the pip  *)
(* subprocess of download_wheel as a process of its own                     *)

\* how a pip subprocess that Popen started can exit
PipExitOutcomes == DownloadOutcomes \ {"cannot_run"}

InitDownload ==
    /\ wheelDirs \in [WheelDirIds -> WheelListings]
    /\ gwLast = NoCall
    /\ dl = NoDownload
    /\ DiscoveryHostIdle
    /\ UpdateIdle
    /\ RecordIdle

\* get_wheel up to process.communicate() of pip_wheel_env_run (line 21): the
\* call ends before it when a local copy is found, the scan raises, download
\* is off, or Popen raises; else pip runs, and it is one that will exit
\* ("running") or one that never finishes ("hung")
GwBegin ==
    /\ dl.pc \in {"idle", "done"}
    /\ \E version \in Versions, search_dirs \in SearchDirLists, download \in BOOLEAN,
          do_periodic_update \in BOOLEAN, runnable \in BOOLEAN,
          pip \in {"running", "hung"} :
         LET args == [distribution |-> "pip", version |-> version,
                      search_dirs |-> search_dirs, download |-> download,
                      do_periodic_update |-> do_periodic_update]
             r == get_wheel(wheelDirs, "pip", version, "3.11", search_dirs,
                            download, do_periodic_update, "cannot_run")
         IN dl' = IF ~r.downloaded \/ ~runnable
                  THEN [pc |-> "done", pip |-> "none", args |-> args, out |-> r.out]
                  ELSE [pc |-> "communicate", pip |-> pip, args |-> args]
    /\ UNCHANGED <<wheelDirs, gwLast>>
    /\ UNCHANGED <<discoveryVars, updateVars, recordVars>>

\* the pip subprocess exits
PipExits ==
    /\ dl.pc = "communicate"
    /\ dl.pip = "running"
    /\ \E outcome \in PipExitOutcomes : dl' = [dl EXCEPT !.pip = outcome]
    /\ UNCHANGED <<wheelDirs, gwLast>>
    /\ UNCHANGED <<discoveryVars, updateVars, recordVars>>

\* process.communicate() returns once pip has exited (it is called without
\* timeout), and get_wheel runs to its end
GwCommunicate ==
    /\ dl.pc = "communicate"
    /\ dl.pip \in PipExitOutcomes
    /\ dl' = [pc |-> "done", pip |-> "none", args |-> dl.args,
              out |-> get_wheel(wheelDirs, "pip", dl.args.version, "3.11",
                                dl.args.search_dirs, dl.args.download,
                                dl.args.do_periodic_update, dl.pip).out]
    /\ UNCHANGED <<wheelDirs, gwLast>>
    /\ UNCHANGED <<discoveryVars, updateVars, recordVars>>

NextDownload == GwBegin \/ PipExits \/ GwCommunicate

\* the steps of get_wheel are taken when they can be, and a pip process that
\* is not hung does exit
SpecDownload ==
    /\ InitDownload
    /\ [][NextDownload]_vars
    /\ WF_vars(PipExits)
    /\ WF_vars(GwCommunicate)

\* C21: no get_wheel call blocks indefinitely: a call that waits for its
\* download subprocess eventually returns (a path or not-found), even when
\* that subprocess never finishes.
C21_GetWheelReturns ==
    (dl.pc = "communicate") ~> (dl.pc = "done" /\ dl.out.tag = "return")

-----------------------------------------------------------------------------
(* Specification SpecConvert: config/convert.py, the conversion of a        *)
(* configuration value to a list                                            *)

\* characters per configuration value
MaxLen == 3

\* the characters of the values; a str is the sequence of its characters
TextChars == {"a", "b", ",", " ", "\n"}

\* the values handed to split_values and convert: None or a str
StrValue(chars) == [kind |-> "str", chars |-> chars]

ConfigValues ==
    { NoneObj } \cup
    { StrValue(chars) : chars \in UNION { [1..n -> TextChars] : n \in 0..MaxLen } }

\* str.strip(): without leading and trailing whitespace
RECURSIVE strip(_)
strip(chars) ==
    IF chars = <<>> THEN <<>>
    ELSE IF Head(chars) \in {" ", "\n"} THEN strip(Tail(chars))
    ELSE IF chars[Len(chars)] \in {" ", "\n"} THEN strip(SubSeq(chars, 1, Len(chars) - 1))
    ELSE chars

\* str.split(sep): the pieces between the separators, empty ones included
RECURSIVE split(_, _)
split(chars, sep) ==
    IF \A i \in 1..Len(chars) : chars[i] # sep THEN <<chars>>
    ELSE LET i == CHOOSE k \in 1..Len(chars) :
                     chars[k] = sep /\ \A j \in 1..(k - 1) : chars[j] # sep
         IN <<SubSeq(chars, 1, i - 1)>> \o split(SubSeq(chars, i + 1, Len(chars)), sep)

\* str.splitlines(): the lines, without an empty last line after a final
\* line break; no line for the empty str
splitlines(chars) ==
    LET pieces == split(chars, "\n")
    IN IF pieces[Len(pieces)] = <<>> THEN SubSeq(pieces, 1, Len(pieces) - 1)
       ELSE pieces

\* [i.strip() for i in pieces if i.strip()]
RECURSIVE Stripped(_)
Stripped(pieces) ==
    IF pieces = <<>> THEN <<>>
    ELSE IF strip(Head(pieces)) = <<>> THEN Stripped(Tail(pieces))
    ELSE <<strip(Head(pieces))>> \o Stripped(Tail(pieces))

\* ListType.split_values(value)
split_values(value) ==
    IF value = NoneObj \/ value.chars = <<>> THEN <<>>
    ELSE LET values == Stripped(splitlines(value.chars))
         IN IF values = <<>> THEN Stripped(split(value.chars, ","))
            ELSE values

\* convert(value, list, source)
convert(value) ==
    IF value = NoneObj THEN Return(NoneObj)
    ELSE Return([kind |-> "list", items |-> split_values(value)])

InitConvert ==
    /\ DiscoveryHostIdle
    /\ WheelIdle
    /\ UpdateIdle
    /\ versions = <<>>
    /\ call \in { Pending(fn, [value |-> v]) :
                    fn \in {"split_values", "convert"}, v \in ConfigValues }

\* ListType(list, list).split_values(value)
SplitValues ==
    /\ call.fn = "split_values" /\ ~call.done
    /\ call' = [call EXCEPT !.done = TRUE, !.result = split_values(call.args.value)]
    /\ UNCHANGED <<discoveryVars, wheelVars, updateVars, versions>>

\* convert(value, list, source)
Convert ==
    /\ call.fn = "convert" /\ ~call.done
    /\ call' = [call EXCEPT !.done = TRUE, !.result = convert(call.args.value)]
    /\ UNCHANGED <<discoveryVars, wheelVars, updateVars, versions>>

NextConvert == SplitValues \/ Convert

SpecConvert == InitConvert /\ [][NextConvert]_vars

\* what C22 says split_values gives: the lines of a text with a newline, the
\* pieces between commas of a text without one, each stripped and the empty
\* ones dropped; the empty list for None and for the empty str
C22_Expected(value) ==
    IF value = NoneObj \/ value.chars = <<>> THEN <<>>
    ELSE IF \E i \in 1..Len(value.chars) : value.chars[i] = "\n"
    THEN Stripped(splitlines(value.chars))
    ELSE Stripped(split(value.chars, ","))

\* C22: split_values splits a str by newlines and, when the text contains no
\* newline, by commas ('a,b' yields ['a', 'b']); every element is stripped,
\* empty elements are dropped, and an empty or None value yields [].
C22_SplitByNewlineElseComma ==
    (call.fn = "split_values" /\ call.done)
        => call.result = C22_Expected(call.args.value)

=============================================================================
